---- MODULE Spec2Model ----
(***************************************************************************)
(* MoexClient (src/moex_client.py): the paginated fetch-and-normalize      *)
(* pipeline of get_history and the single-call snapshot lookup get_data,   *)
(* as a state machine.  A call is split at its blocking GET: one action    *)
(* issues the request, the next receives the upstream's answer and runs    *)
(* the handler up to the next GET or to its return / raise.  Spec is one   *)
(* caller; ConcurrentSpec is two callers in two threads, each with its own *)
(* client; FairSpec is Spec with the progress the code's sequential        *)
(* execution and the GET timeout give.                                     *)
(***************************************************************************)
EXTENDS Integers, Sequences, FiniteSets, TLC

\* Number of GET requests one call may issue in the model.
MaxPages == 3

\* ------------------------------------------------------------------ values

\* Python's None, and every empty dict / empty list: a function with an
\* empty domain.  All of them are falsy.
None == << >>

\* Python truthiness of a dict, a list or None.
Truthy(v) == DOMAIN v # {}

\* dict.get(key, default)
DictGet(d, k, default) == IF k \in DOMAIN d THEN d[k] ELSE default

Range(s) == {s[i] : i \in DOMAIN s}

\* Position of the first occurrence of column c in the column list.
IndexOf(cols, c) == CHOOSE i \in DOMAIN cols : cols[i] = c /\ \A j \in 1..(i - 1) : cols[j] # c

\* ------------------------------------------------------------------ client

DEFAULT_ENGINE == "stock"
DEFAULT_MARKET == "shares"
DEFAULT_BOARD == "TQBR"

\* str.upper() on the tickers the model constructs clients with.
Tickers == {"sber", "GAZP"}

Upper(t) == CASE t = "sber" -> "SBER"
              [] t = "GAZP" -> "GAZP"

\* MoexClient.__init__ with the default engine, market and board.
MoexClient(ticker) ==
    [ticker |-> Upper(ticker), engine |-> DEFAULT_ENGINE,
     market |-> DEFAULT_MARKET, board |-> DEFAULT_BOARD]

\* ------------------------------------------------------------------ transport

\* What requests.get meets: the connection outcome, the HTTP status and the
\* parsed JSON body.
HttpReply(net, status, body) == [net |-> net, status |-> status, body |-> body]

RuntimeError(line) == [type |-> "RuntimeError", line |-> line]
ValueError(line) == [type |-> "ValueError", line |-> line]
KeyError(line) == [type |-> "KeyError", line |-> line]

\* _get without resp.raise_for_status(): an error status goes unnoticed.
_getIgnoringStatus(reply) ==
    IF reply.net # "ok" THEN [raised |-> TRUE, exc |-> RuntimeError(32), data |-> None]
    ELSE IF ~Truthy(reply.body) THEN [raised |-> TRUE, exc |-> RuntimeError(29), data |-> None]
    ELSE [raised |-> FALSE, exc |-> None, data |-> reply.body]

\* MoexClient._get: the parsed body, or the RuntimeError it raises.
_get(reply) ==
    IF reply.net # "ok" THEN [raised |-> TRUE, exc |-> RuntimeError(32), data |-> None]
    ELSE IF reply.status >= 400 THEN [raised |-> TRUE, exc |-> RuntimeError(32), data |-> None]
    ELSE IF ~Truthy(reply.body) THEN [raised |-> TRUE, exc |-> RuntimeError(29), data |-> None]
    ELSE [raised |-> FALSE, exc |-> None, data |-> reply.body]

\* ------------------------------------------------------------------ frames

\* pd.DataFrame(data, columns=cols): each row keyed by column name.
DataFrame(data, cols) ==
    [columns |-> cols,
     rows |-> [i \in DOMAIN data |-> [c \in Range(cols) |-> data[i][IndexOf(cols, c)]]]]

\* "name in df"
HasCol(df, c) == c \in Range(df.columns)

\* pd.to_datetime on the upstream's date text, the digits of a day number
\* followed by four digits of minutes into the day: the minutes since the
\* epoch of the model's calendar.
to_datetime(text) == (text \div 10000) * 1440 + (text % 10000)

\* df["TRADEDATE"] = pd.to_datetime(df[src])
SetTradeDate(df, src) ==
    [columns |-> IF HasCol(df, "TRADEDATE") THEN df.columns
                 ELSE Append(df.columns, "TRADEDATE"),
     rows |-> [i \in DOMAIN df.rows |->
                [c \in Range(df.columns) \cup {"TRADEDATE"} |->
                    IF c = "TRADEDATE" THEN to_datetime(df.rows[i][src])
                    ELSE df.rows[i][c]]]]

\* df.rename(columns={old: new}); a row that lacks the column (NaN after a
\* concat) stays without it.
RenameRow(r, old, new) ==
    IF old \notin DOMAIN r THEN r
    ELSE [c \in (DOMAIN r \ {old}) \cup {new} |-> IF c = new THEN r[old] ELSE r[c]]

Rename(df, old, new) ==
    IF ~HasCol(df, old) THEN df
    ELSE [columns |-> [k \in DOMAIN df.columns |->
                          IF df.columns[k] = old THEN new ELSE df.columns[k]],
          rows |-> [i \in DOMAIN df.rows |-> RenameRow(df.rows[i], old, new)]]

\* df[[c1, c2, ...]]
Project(df, cols) ==
    [columns |-> cols,
     rows |-> [i \in DOMAIN df.rows |-> [c \in Range(cols) |-> df.rows[i][c]]]]

\* pd.concat(dfs, ignore_index=True): the rows of every frame in order; a row
\* keeps the columns of its own frame, a column it lacks reads as NaN.
RECURSIVE ConcatRows(_)
ConcatRows(dfs) ==
    IF dfs = << >> THEN << >> ELSE dfs[1].rows \o ConcatRows(Tail(dfs))

RECURSIVE ConcatCols(_)
ConcatCols(dfs) ==
    IF dfs = << >> THEN << >>
    ELSE LET rest == ConcatCols(Tail(dfs))
         IN  dfs[1].columns \o SelectSeq(rest, LAMBDA c : c \notin Range(dfs[1].columns))

Concat(dfs) == [columns |-> ConcatCols(dfs), rows |-> ConcatRows(dfs)]

\* drop_duplicates with keep="last": a row stays unless a later row has its
\* value in col.
DropDuplicatesKeepLast(df, col) ==
    LET numbered == [i \in DOMAIN df.rows |-> [idx |-> i, row |-> df.rows[i]]]
        last == SelectSeq(numbered,
                    LAMBDA e : \A j \in (e.idx + 1)..Len(df.rows) :
                                  df.rows[j][col] # e.row[col])
    IN  [columns |-> df.columns, rows |-> [k \in DOMAIN last |-> last[k].row]]

\* df.drop_duplicates(subset=col): keep="first" is the default, so a row stays
\* unless an earlier row has its value in col.
DropDuplicates(df, col) ==
    LET numbered == [i \in DOMAIN df.rows |-> [idx |-> i, row |-> df.rows[i]]]
        first == SelectSeq(numbered,
                     LAMBDA e : \A j \in 1..(e.idx - 1) : df.rows[j][col] # e.row[col])
    IN  [columns |-> df.columns, rows |-> [k \in DOMAIN first |-> first[k].row]]

\* The merge without the sort of line 86.
SortValuesSkipped(df, col) == df

\* df.sort_values(col) followed by reset_index(drop=True): ascending.
SortValues(df, col) ==
    [columns |-> df.columns,
     rows |-> SortSeq(df.rows, LAMBDA a, b : a[col] < b[col])]

\* Lines 84-89 of get_history: merge, deduplicate, sort, rename.
Normalize(dfs) ==
    LET merged == Concat(dfs)
        unique == DropDuplicates(merged, "TRADEDATE")
        sorted == SortValues(unique, "TRADEDATE")
        named  == Rename(Rename(sorted, "TRADEDATE", "TIMESTAMP"), "CLOSE", "PRICE")
    IN  Rename(named, "volume", "VOLUME")

\* ------------------------------------------------------------------ returns

\* A float64 of the derived columns: NaN, an infinity (n is its sign), the
\* fraction n/d in lowest terms with d > 0, or the natural logarithm of such
\* a fraction.  Arithmetic is exact: the rounding of the floating-point
\* operations is left out.
NaN == [kind |-> "nan", n |-> 0, d |-> 0]
Infinity(sign) == [kind |-> "inf", n |-> sign, d |-> 0]

Abs(a) == IF a < 0 THEN 0 - a ELSE a
Sign(a) == IF a < 0 THEN 0 - 1 ELSE IF a = 0 THEN 0 ELSE 1

RECURSIVE Gcd(_, _)
Gcd(a, b) == IF b = 0 THEN a ELSE Gcd(b, a % b)

\* n/d for d # 0.
Fraction(n, d) ==
    LET g == Gcd(Abs(n), Abs(d))
    IN  [kind |-> "num", n |-> Sign(n) * Sign(d) * (Abs(n) \div g), d |-> Abs(d) \div g]

\* a / b on two prices, as float64 division does it: a division by zero
\* gives an infinity, 0 / 0 gives NaN, and nothing is raised.
TrueDiv(a, b) ==
    IF b # 0 THEN Fraction(a, b)
    ELSE IF a = 0 THEN NaN
    ELSE Infinity(Sign(a))

\* x - 1 and 1 + x
MinusOne(x) == IF x.kind = "num" THEN Fraction(x.n - x.d, x.d) ELSE x
OnePlus(x) == IF x.kind = "num" THEN Fraction(x.n + x.d, x.d) ELSE x

\* x * y
Times(x, y) ==
    IF x.kind = "nan" \/ y.kind = "nan" THEN NaN
    ELSE IF x.kind = "num" /\ y.kind = "num" THEN Fraction(x.n * y.n, x.d * y.d)
    ELSE IF x.n = 0 \/ y.n = 0 THEN NaN
    ELSE Infinity(Sign(x.n) * Sign(y.n))

\* np.log: log(0) is -inf, log(inf) is inf, the log of a negative number is
\* NaN (numpy warns and does not raise).
log(x) ==
    CASE x.kind = "nan" -> NaN
      [] x.kind = "inf" -> IF x.n > 0 THEN x ELSE NaN
      [] x.kind = "num" /\ x.n < 0 -> NaN
      [] x.kind = "num" /\ x.n = 0 -> Infinity(0 - 1)
      [] x.kind = "num" /\ x.n = x.d -> Fraction(0, 1)
      [] OTHER -> [kind |-> "ln", n |-> x.n, d |-> x.d]

\* price / price.shift(1): NaN in the first row, which has no row before it.
OverPrevious(price) ==
    [i \in DOMAIN price |-> IF i = 1 THEN NaN ELSE TrueDiv(price[i], price[i - 1])]

\* The simple return with the subtraction of 1 forgotten.
PriceRatio(price) == OverPrevious(price)

\* Series.pct_change(): price / price.shift(1) - 1.  (The forward fill it
\* applies to null prices first has nothing to fill: the pages of the model
\* carry a number in every price cell.)
pct_change(price) ==
    [i \in DOMAIN price |-> MinusOne(OverPrevious(price)[i])]

\* The running product of xs: that of its first half, followed by that of its
\* second half with every element multiplied by the product of the first.
RECURSIVE RunningProduct(_)
RunningProduct(xs) ==
    IF Len(xs) <= 1 THEN xs
    ELSE LET half == Len(xs) \div 2
             left == RunningProduct(SubSeq(xs, 1, half))
             right == RunningProduct(SubSeq(xs, half + 1, Len(xs)))
         IN  left \o [i \in DOMAIN right |-> Times(left[half], right[i])]

\* Series.cumprod(): the product of the elements up to each row; a NaN element
\* is skipped (skipna) and its own row reads NaN.
cumprod(xs) ==
    LET filled == [i \in DOMAIN xs |-> IF xs[i].kind = "nan" THEN Fraction(1, 1) ELSE xs[i]]
        running == RunningProduct(filled \o << >>)
    IN  [i \in DOMAIN xs |-> IF xs[i].kind = "nan" THEN NaN ELSE running[i]]

\* Lines 90-92: the LOGRET, RET and CUMRET columns.
Returns(df) ==
    LET price == [i \in DOMAIN df.rows |-> df.rows[i]["PRICE"]] \o << >>
        ratio == OverPrevious(price) \o << >>
        ret == pct_change(price) \o << >>
        cum == cumprod([i \in DOMAIN ret |-> OnePlus(ret[i])] \o << >>) \o << >>
    IN  [columns |-> df.columns \o << "LOGRET", "RET", "CUMRET" >>,
         rows |-> [i \in DOMAIN df.rows |->
                    [c \in DOMAIN df.rows[i] \cup {"LOGRET", "RET", "CUMRET"} |->
                        CASE c = "LOGRET" -> log(ratio[i])
                          [] c = "RET" -> ret[i]
                          [] c = "CUMRET" -> cum[i]
                          [] OTHER -> df.rows[i][c]]]]

\* ------------------------------------------------------------------ upstream

\* The date text the upstream writes for the k-th bar: a calendar day in the
\* history endpoint's TRADEDATE, an hourly bar's end in the candles endpoint.
HistoryText(k) == k * 10000
CandleText(k) == (k \div 24) * 10000 + 60 * (k % 24)

\* The cell of column col in row i of the answer to request number tag; the
\* row is the upstream's k-th bar.
Cell(col, k, tag, i) ==
    CASE col = "TRADEDATE" -> HistoryText(k)
      [] col = "end" -> CandleText(k)
      [] col \in {"CLOSE", "close", "OPEN"} -> 1000 * tag + i
      [] col \in {"VOLUME", "volume"} -> 10 * i + tag

\* The bar of row i of n rows starting at bar base: oldest first, newest
\* first, or the same bar in every row.
Bar(n, base, order, i) ==
    CASE order = "asc" -> base + i - 1
      [] order = "desc" -> base + n - i
      [] order = "same" -> base

Rows(cols, n, base, order, tag) ==
    [i \in 1..n |->
        [c \in DOMAIN cols |-> Cell(cols[c], Bar(n, base, order, i), tag, i)]]

Block(cols, n, base, order, tag) ==
    [columns |-> cols, data |-> Rows(cols, n, base, order, tag)]

HistoryCols == << "TRADEDATE", "CLOSE", "VOLUME" >>
HistoryNoVolumeCols == << "TRADEDATE", "CLOSE" >>
CandleCols == << "close", "volume", "end" >>
NoPriceCols == << "TRADEDATE", "VOLUME" >>
CandleNoPriceCols == << "volume", "end" >>
NoTimestampCols == << "CLOSE", "VOLUME" >>
NeitherCols == << "OPEN", "VOLUME" >>

\* get_history's page size (limit = 100).
limit == 100

\* A JSON body carrying one page under the envelope of its endpoint; layout
\* is the first bar of the page and the order of its rows.
PageBody(cols, n, layout, tag) ==
    IF "end" \in Range(cols)
    THEN [candles |-> Block(cols, n, layout[1], layout[2], tag)]
    ELSE [history |-> Block(cols, n, layout[1], layout[2], tag)]

\* The block with the given prices in its price column, row by row.
WithPrices(block, prices) ==
    [columns |-> block.columns,
     data |-> [i \in DOMAIN block.data |->
                [c \in DOMAIN block.columns |->
                    IF block.columns[c] \in {"CLOSE", "close"} THEN prices[i]
                    ELSE block.data[i][c]]]]

\* Closing prices of consecutive bars, some of them zero (a bar the upstream
\* reports without a trade price).
PriceLists == { << 100, 110, 99 >>, << 0, 50 >>, << 50, 0, 50 >>, << 0, 0, 50 >> }

\* A short page of bars later than those of every other page, oldest first,
\* with the given closing prices.
QuotedBody(cols, prices, tag) ==
    IF "end" \in Range(cols)
    THEN [candles |-> WithPrices(Block(cols, Len(prices), 2 * limit, "asc", tag), prices)]
    ELSE [history |-> WithPrices(Block(cols, Len(prices), 2 * limit, "asc", tag), prices)]

\* What the history endpoint answers with: full pages (one of them with a
\* row more than asked for, one without a price column, one without a date
\* column) and short pages.
HistoryPages(tag) ==
    { PageBody(HistoryCols, limit, << 0, "asc" >>, tag),
      PageBody(HistoryNoVolumeCols, limit, << 50, "desc" >>, tag),
      PageBody(HistoryCols, limit + 1, << 50, "desc" >>, tag),
      PageBody(NoPriceCols, limit, << 0, "asc" >>, tag),
      PageBody(NoTimestampCols, limit, << 0, "asc" >>, tag),
      PageBody(NoPriceCols, 2, << 0, "asc" >>, tag),
      PageBody(NoTimestampCols, 2, << 0, "asc" >>, tag) }
    \cup { PageBody(cols, n, << 50, "desc" >>, tag) :
             cols \in {HistoryCols, HistoryNoVolumeCols}, n \in {2, limit - 1} }
    \cup { PageBody(HistoryCols, 2, << 50, "same" >>, tag) }
    \cup { QuotedBody(HistoryCols, prices, tag) : prices \in PriceLists }
    \cup { PageBody(NeitherCols, n, << 0, "asc" >>, tag) : n \in {2, limit} }

\* What the candles endpoint answers with.
CandlePages(tag) ==
    { PageBody(CandleCols, limit, << 0, "asc" >>, tag),
      PageBody(CandleCols, limit + 1, << 50, "desc" >>, tag),
      PageBody(CandleNoPriceCols, limit, << 0, "asc" >>, tag),
      PageBody(CandleNoPriceCols, 2, << 0, "asc" >>, tag) }
    \cup { PageBody(CandleCols, n, << 50, "desc" >>, tag) : n \in {2, limit - 1} }
    \cup { PageBody(CandleCols, 2, << 50, "same" >>, tag) }
    \cup { QuotedBody(CandleCols, prices, tag) : prices \in PriceLists }
    \cup { [candles |-> Block(NeitherCols, 2, 0, "asc", tag)] }

\* Bodies without a usable envelope under "history": another key only, an
\* empty envelope object, envelopes without rows, and a null or a zero-row
\* history envelope beside a candles envelope that has rows.
EmptyBodies(tag) ==
    { [securities |-> Block(HistoryCols, 0, 0, "asc", tag)],
      [history |-> None],
      [history |-> Block(HistoryCols, 0, 0, "asc", tag)],
      [candles |-> Block(CandleCols, 0, 0, "asc", tag)],
      [history |-> None, candles |-> Block(CandleCols, 2, 0, "asc", tag)],
      [history |-> Block(HistoryCols, 0, 0, "asc", tag),
       candles |-> Block(CandleCols, 2, 0, "asc", tag)] }

\* A body with rows under both envelopes.
BothEnvelopes(tag) ==
    { [history |-> Block(HistoryCols, 2, 0, "asc", tag),
       candles |-> Block(CandleCols, 3, 10, "asc", tag)] }

\* The bodies the upstream may answer a request with: those of the endpoint
\* the request names.
HistoryBodies(request, tag) ==
    EmptyBodies(tag) \cup BothEnvelopes(tag) \cup
        (IF request.url[2] = "history" THEN HistoryPages(tag) ELSE CandlePages(tag))

\* Every way a GET can fail: no connection, a timeout, an error status (with
\* an error document or with a page as its body), an empty JSON document.
FailedReplies ==
    { HttpReply("ConnectionError", 0, None), HttpReply("Timeout", 0, None),
      HttpReply("ok", 404, [error |-> None]),
      HttpReply("ok", 500, PageBody(HistoryCols, 2, << 0, "asc" >>, 9)),
      HttpReply("ok", 200, None) }

HistoryReplies(request, tag) ==
    FailedReplies \cup { HttpReply("ok", 200, b) : b \in HistoryBodies(request, tag) }

\* ------------------------------------------------------------------ state

VARIABLES
    self,         \* the client's ticker, engine, market, board
    pc,           \* "idle", "get" (line 51), "wait" (inside requests.get), "done"
    call,         \* the operation in progress and its arguments
    endpoint,     \* get_history's endpoint
    params,       \* get_history's params dict
    start_index,  \* get_history's start_index
    all_dfs,      \* get_history's all_dfs
    requests,     \* every GET issued: url and a copy of the query
    replies,      \* every reply received
    outcome,      \* how the call ended
    threads,      \* concurrent callers: the frame of each one's call
    heap          \* concurrent callers: the objects their frames refer to

vars == << self, pc, call, endpoint, params, start_index, all_dfs, requests,
           replies, outcome, threads, heap >>

BASE_URL == "https://iss.moex.com/iss"

\* The intervals dict with the 10-minute entry missing.
IntervalsWithoutTenMinutes == {"1m", "1h", "1d"}

\* The keys of the intervals dict of line 35.
Intervals == {"1m", "10m", "1h", "1d"}

\* intervals[interval]
IntervalCode(interval) ==
    CASE interval = "1m" -> 1
      [] interval = "10m" -> 10
      [] interval = "1h" -> 60
      [] interval = "1d" -> 1440

\* The interval strings callers pass, recognised or not.
IntervalInputs == {"1m", "10m", "1h", "1d", "5m", "daily"}
StartDates == {"2024-01-01"}
EndDates == {"2024-03-31"}

NoCall == [op |-> "none"]
NoOutcome == [kind |-> "none"]
Raise(exc) == [kind |-> "raise", exc |-> exc]
Return(value) == [kind |-> "return", value |-> value]

\* d[k] = v
DictSet(d, k, v) == [x \in DOMAIN d \cup {k} |-> IF x = k THEN v ELSE d[x]]

\* Two callers in two threads, each with a client of its own for its own
\* ticker.
Callers == {1, 2}
CallerTicker(t) == IF t = 1 THEN "sber" ELSE "GAZP"

\* The frame of a caller that has not called yet: self refers to the caller's
\* client; params and all_dfs refer to nothing (0).
IdleFrame(t) ==
    [self |-> t, pc |-> "idle", call |-> NoCall, endpoint |-> << >>, params |-> 0,
     start_index |-> 0, all_dfs |-> 0, requests |-> << >>, replies |-> << >>,
     outcome |-> NoOutcome]

\* The objects that exist before any call: the two clients.
Clients == [t \in Callers |-> MoexClient(CallerTicker(t))]

Init ==
    /\ self \in { MoexClient(t) : t \in Tickers }
    /\ pc = "idle"
    /\ call = NoCall
    /\ endpoint = << >>
    /\ params = << >>
    /\ start_index = 0
    /\ all_dfs = << >>
    /\ requests = << >>
    /\ replies = << >>
    /\ outcome = NoOutcome
    /\ threads = [t \in Callers |-> IdleFrame(t)]
    /\ heap = Clients

\* Lines 39-44: the endpoint path, as its segments, and the base parameters.
HistoryEndpoint(client, interval) ==
    IF interval = "1d"
    THEN << "history", "engines", client.engine, "markets", client.market,
            "boards", client.board, "securities", client.ticker, ".json" >>
    ELSE << "engines", client.engine, "markets", client.market,
            "securities", client.ticker, "candles.json" >>

\* The base parameters with the interval code sent to the history endpoint too.
HistoryParamsWithInterval(start, end, interval) ==
    [from |-> start, till |-> end, interval |-> IntervalCode(interval)]

HistoryParams(start, end, interval) ==
    IF interval = "1d"
    THEN [from |-> start, till |-> end]
    ELSE [from |-> start, till |-> end, interval |-> IntervalCode(interval)]

\* get_history, lines 34-48: up to the first iteration of the loop.
GetHistory(start, end, interval) ==
    /\ pc = "idle"
    /\ call' = [op |-> "get_history", start |-> start, end |-> end, interval |-> interval]
    /\ IF interval \notin Intervals
       THEN /\ pc' = "done"
            /\ outcome' = Raise(ValueError(37))
            /\ UNCHANGED << endpoint, params >>
       ELSE /\ pc' = "get"
            /\ endpoint' = HistoryEndpoint(self, interval)
            /\ params' = HistoryParams(start, end, interval)
            /\ UNCHANGED outcome
    /\ all_dfs' = << >>
    /\ start_index' = 0
    /\ UNCHANGED << self, requests, replies, threads, heap >>

\* Lines 51-53 and 23-25: the query gets its start and limit and the GET goes out.
IssueGet ==
    /\ pc = "get"
    /\ Len(requests) < MaxPages
    /\ LET query == DictSet(DictSet(params, "start", start_index), "limit", limit)
       IN  /\ params' = query
           /\ requests' = Append(requests, [url |-> << BASE_URL >> \o endpoint,
                                             params |-> query])
    /\ pc' = "wait"
    /\ UNCHANGED << self, call, endpoint, start_index, all_dfs, replies, outcome,
                    threads, heap >>

\* The envelope chosen by the presence of the "history" key alone.
EnvelopeByKey(j) ==
    IF "history" \in DOMAIN j THEN j["history"] ELSE DictGet(j, "candles", None)

\* Line 54: j.get("history") or j.get("candles")
Envelope(j) ==
    IF Truthy(DictGet(j, "history", None)) THEN j["history"]
    ELSE DictGet(j, "candles", None)

\* Lines 61-66: the frame of a page with its TRADEDATE column; raises KeyError
\* when the page has neither an "end" nor a "TRADEDATE" column.
PageFrame(data, cols) ==
    LET df == DataFrame(data, cols)
    IN  IF HasCol(df, "end")
        THEN [raised |-> FALSE, df |-> Rename(SetTradeDate(df, "end"), "close", "CLOSE")]
        ELSE IF HasCol(df, "TRADEDATE")
        THEN [raised |-> FALSE, df |-> SetTradeDate(df, "TRADEDATE")]
        ELSE [raised |-> TRUE, df |-> df]

\* Lines 71-75: the columns appended to all_dfs.
Selected(df) ==
    IF HasCol(df, "VOLUME") THEN Project(df, << "TRADEDATE", "CLOSE", "VOLUME" >>)
    ELSE Project(df, << "TRADEDATE", "CLOSE" >>)

\* The last-page test off by one: a page of exactly limit rows ends the loop.
LastPageOffByOne(df) == Len(df.rows) <= limit

\* Line 77: the page is the last one.
LastPage(df) == Len(df.rows) < limit

\* The offset advanced by one row instead of one page.
NextStartByOne(offset) == offset + 1

\* Line 79: the row offset of the next request.
NextStart(offset) == offset + limit

\* get_history without the check of line 81: an empty all_dfs is merged too.
FinishWithoutCheck(dfs) == Return(Normalize(dfs))

\* Lines 81-94: what get_history ends with once the loop is left.
Finish(dfs) ==
    IF ~Truthy(dfs) THEN Raise(ValueError(82)) ELSE Return(Returns(Normalize(dfs)))

\* Lines 53-79, then 81-94 when the loop is left: one reply to get_history.
ReceivePage(reply) ==
    /\ pc = "wait"
    /\ call.op = "get_history"
    /\ replies' = Append(replies, reply)
    /\ LET got == _get(reply)
           block == Envelope(got.data)
           data == DictGet(block, "data", << >>)
           cols == DictGet(block, "columns", << >>)
           page == PageFrame(data, cols)
       IN  IF got.raised
           THEN /\ pc' = "done"
                /\ outcome' = Raise(got.exc)
                /\ UNCHANGED << all_dfs, start_index >>
           ELSE IF ~Truthy(block) \/ ~Truthy(data)
           THEN /\ pc' = "done"
                /\ outcome' = Finish(all_dfs)
                /\ UNCHANGED << all_dfs, start_index >>
           ELSE IF page.raised
           THEN /\ pc' = "done"
                /\ outcome' = Raise(KeyError(66))
                /\ UNCHANGED << all_dfs, start_index >>
           ELSE IF ~HasCol(page.df, "CLOSE")
           THEN /\ pc' = "done"
                /\ outcome' = Finish(all_dfs)
                /\ UNCHANGED << all_dfs, start_index >>
           ELSE /\ all_dfs' = Append(all_dfs, Selected(page.df))
                /\ IF LastPage(page.df)
                   THEN /\ pc' = "done"
                        /\ outcome' = Finish(all_dfs')
                        /\ UNCHANGED start_index
                   ELSE /\ pc' = "get"
                        /\ start_index' = NextStart(start_index)
                        /\ UNCHANGED outcome
    /\ UNCHANGED << self, call, endpoint, params, requests, threads, heap >>

\* ------------------------------------------------------------------ get_data

\* A cell of the marketdata table: JSON null (or NaN), a number, an infinity,
\* or a date text.
Null == [kind |-> "null", v |-> 0]
Num(n) == [kind |-> "num", v |-> n]
Inf == [kind |-> "inf", v |-> 1]
Text(t) == [kind |-> "text", v |-> t]

\* pd.notna, np.isfinite and the sign test of line 115 on a cell.
notna(c) == c.kind # "null"
isfinite(c) == c.kind = "num"
Positive(c) == c.kind = "inf" \/ (c.kind = "num" /\ c.v > 0)

\* The candidate list with the closing price tried first.
PriceFieldsCloseFirst ==
    << "CLOSEPRICE", "LCURRENTPRICE", "LAST", "MARKETPRICE", "LASTPRICE" >>

\* The candidate price fields in the order line 110 tries them.
PriceFields == << "LCURRENTPRICE", "LAST", "MARKETPRICE", "LASTPRICE", "CLOSEPRICE" >>
MarketdataCols == PriceFields \o << "VOLUME", "SYSTIME" >>

\* What the upstream puts into a column: nothing (no such column), null, or a
\* value; a price is zero or the price of its field, a volume zero or positive.
PriceOptions == {"absent", "null", "zero", "value"}

PriceCell(field, option) ==
    CASE option = "null" -> Null
      [] option = "zero" -> Num(0)
      [] option = "value" -> Num(100 + IndexOf(PriceFields, field))
      [] option = "negative" -> Num(-5)
      [] option = "inf" -> Inf

VolumeCell(option) ==
    CASE option = "null" -> Null
      [] option = "zero" -> Num(0)
      [] option = "value" -> Num(7000)
      [] option = "negative" -> Num(-5)
      [] option = "inf" -> Inf

SystimeCell(option) ==
    CASE option = "null" -> Null
      [] option = "value" -> Text(CandleText(30))

\* The one-row marketdata table for a choice of options, one per column.
Marketdata(opt) ==
    LET cols == SelectSeq(MarketdataCols, LAMBDA c : opt[c] # "absent")
        row == [k \in DOMAIN cols |->
                  IF cols[k] = "VOLUME" THEN VolumeCell(opt[cols[k]])
                  ELSE IF cols[k] = "SYSTIME" THEN SystimeCell(opt[cols[k]])
                  ELSE PriceCell(cols[k], opt[cols[k]])]
    IN  [marketdata |-> [columns |-> cols, data |-> << row >>]]

\* Every choice of the usual options, and the ones with a negative or an
\* infinite number in the first or the second candidate or in the volume.
SnapshotOptions ==
    { [c \in Range(MarketdataCols) |->
          IF c = "VOLUME" THEN v ELSE IF c = "SYSTIME" THEN t ELSE p[c]] :
        p \in [Range(PriceFields) -> PriceOptions],
        v \in {"absent", "null", "zero", "value"},
        t \in {"absent", "null", "value"} }
    \cup
    { [c \in Range(MarketdataCols) |->
          CASE c = "LCURRENTPRICE" -> p1
            [] c = "LAST" -> p2
            [] c = "VOLUME" -> v
            [] c = "SYSTIME" -> "value"
            [] OTHER -> "absent"] :
        p1 \in {"absent", "null", "value", "negative", "inf"},
        p2 \in {"value", "negative", "inf"},
        v \in {"value", "negative", "inf"} }

\* Bodies without a marketdata row: another key only, no data key, no rows.
NoMarketdataBodies ==
    { [securities |-> [columns |-> PriceFields, data |-> << >>]],
      [marketdata |-> [columns |-> PriceFields]],
      [marketdata |-> [columns |-> PriceFields, data |-> << >>]] }

SnapshotReplies ==
    FailedReplies
    \cup { HttpReply("ok", 200, b) : b \in NoMarketdataBodies }
    \cup { HttpReply("ok", 200, Marketdata(opt)) : opt \in SnapshotOptions }

\* What pd.Timestamp.now() may read.
Clock == { to_datetime(CandleText(31)) }

\* Line 98.
SnapshotEndpoint(client) ==
    << "engines", client.engine, "markets", client.market,
       "securities", client.ticker, ".json" >>

\* get_data, lines 98-100 and 23-25: the single GET goes out.
GetData ==
    /\ pc = "idle"
    /\ call' = [op |-> "get_data"]
    /\ requests' = Append(requests, [url |-> << BASE_URL >> \o SnapshotEndpoint(self),
                                      params |-> None])
    /\ pc' = "wait"
    /\ UNCHANGED << self, endpoint, params, start_index, all_dfs, replies, outcome,
                    threads, heap >>

\* The candidate loop skipping a field whose value is not a positive finite
\* number instead of stopping at it.
RECURSIVE FirstPositivePrice(_, _)
FirstPositivePrice(first, fields) ==
    IF fields = << >> THEN None
    ELSE IF /\ Head(fields) \in DOMAIN first
            /\ isfinite(first[Head(fields)])
            /\ Positive(first[Head(fields)])
    THEN first[Head(fields)]
    ELSE FirstPositivePrice(first, Tail(fields))

\* Lines 109-113: the first candidate field that is a column and not null in
\* the first row; None when there is none.
RECURSIVE FirstPrice(_, _)
FirstPrice(first, fields) ==
    IF fields = << >> THEN None
    ELSE IF Head(fields) \in DOMAIN first /\ notna(first[Head(fields)])
    THEN first[Head(fields)]
    ELSE FirstPrice(first, Tail(fields))

\* Lines 101-132: what get_data makes of a parsed body.
Snapshot(j, now) ==
    LET data == DictGet(DictGet(j, "marketdata", None), "data", << >>)
        cols == DictGet(DictGet(j, "marketdata", None), "columns", << >>)
        first == DataFrame(data, cols).rows[1]
        price == FirstPrice(first, PriceFields)
    IN  IF ~Truthy(data) THEN Raise(ValueError(105))
        ELSE IF price = None \/ ~isfinite(price) \/ ~Positive(price)
        THEN Raise(ValueError(116))
        ELSE IF ~("VOLUME" \in DOMAIN first /\ notna(first["VOLUME"])
                    /\ Positive(first["VOLUME"]))
        THEN Raise(ValueError(121))
        ELSE Return([price |-> price.v, volume |-> first["VOLUME"],
                     time |-> IF "SYSTIME" \in DOMAIN first /\ notna(first["SYSTIME"])
                              THEN to_datetime(first["SYSTIME"].v) ELSE now])

\* Lines 100-132: the reply to get_data's GET.
ReceiveSnapshot(reply, now) ==
    /\ pc = "wait"
    /\ call.op = "get_data"
    /\ replies' = Append(replies, reply)
    /\ pc' = "done"
    /\ LET got == _get(reply)
       IN  outcome' = IF got.raised THEN Raise(got.exc) ELSE Snapshot(got.data, now)
    /\ UNCHANGED << self, call, endpoint, params, start_index, all_dfs, requests,
                    threads, heap >>

\* The upstream answers the GET of get_history that is in flight.
AnswerPage ==
    /\ pc = "wait"
    /\ call.op = "get_history"
    /\ \E reply \in HistoryReplies(requests[Len(requests)], Len(requests)) :
          ReceivePage(reply)

\* The upstream answers the GET of get_data.
AnswerSnapshot ==
    /\ pc = "wait"
    /\ call.op = "get_data"
    /\ \E reply \in SnapshotReplies, now \in Clock : ReceiveSnapshot(reply, now)

\* A caller starts get_history with some arguments.
CallGetHistory ==
    \E start \in StartDates, end \in EndDates, interval \in IntervalInputs :
        GetHistory(start, end, interval)

Next ==
    \/ CallGetHistory
    \/ IssueGet
    \/ AnswerPage
    \/ GetData
    \/ AnswerSnapshot

Spec == Init /\ [][Next]_vars

\* ------------------------------------------------------------------ concurrent calls

\* Two threads call methods of their own clients at the same time.  A call
\* runs from one GET to the next without interruption; between two GETs of
\* one call the other call may take any number of steps.  A frame holds the
\* local variables of a call; the dict and the list a call creates live in
\* the heap, and the frame refers to them.

seqvars == << self, pc, call, endpoint, params, start_index, all_dfs, requests,
              replies, outcome >>

\* One object per source line, shared by every evaluation of that line (what
\* a mutable default argument or a module-level dict would be).
StaticObject(h, site) == IF site = 46 THEN Len(Clients) + 2 ELSE Len(Clients) + 1

\* The reference to the object a dict or list display at a source line
\* creates: a new object at every evaluation.
NewObject(h, site) == Len(h) + 1

\* The heap with the object at ref set to value.
Store(h, ref, value) ==
    IF ref \in DOMAIN h THEN [h EXCEPT ![ref] = value] ELSE Append(h, value)

\* get_history, lines 34-48, on a frame.
StartHistory(l, h, start, end, interval) ==
    LET called == [l EXCEPT !.call = [op |-> "get_history", start |-> start,
                                      end |-> end, interval |-> interval]]
        p == NewObject(h, IF interval = "1d" THEN 41 ELSE 44)
        h1 == Store(h, p, HistoryParams(start, end, interval))
        a == NewObject(h1, 46)
    IN  IF interval \notin Intervals
        THEN [l |-> [called EXCEPT !.pc = "done", !.outcome = Raise(ValueError(37))],
              h |-> h]
        ELSE [l |-> [called EXCEPT !.pc = "get",
                                   !.endpoint = HistoryEndpoint(h[l.self], interval),
                                   !.params = p, !.all_dfs = a, !.start_index = 0],
              h |-> Store(h1, a, << >>)]

\* Lines 51-53 and 23-25 on a frame: the params dict is updated in place and
\* the GET goes out with what it holds.
IssueHistory(l, h) ==
    LET query == DictSet(DictSet(h[l.params], "start", l.start_index), "limit", limit)
    IN  [l |-> [l EXCEPT !.pc = "wait",
                         !.requests = Append(@, [url |-> << BASE_URL >> \o l.endpoint,
                                                 params |-> query])],
         h |-> Store(h, l.params, query)]

\* Lines 53-79, then 81-94 when the loop is left, on a frame.
ReceiveHistory(l, h, reply) ==
    LET got == _get(reply)
        block == Envelope(got.data)
        data == DictGet(block, "data", << >>)
        cols == DictGet(block, "columns", << >>)
        page == PageFrame(data, cols)
        seen == [l EXCEPT !.replies = Append(@, reply)]
        h1 == Store(h, l.all_dfs, Append(h[l.all_dfs], Selected(page.df)))
    IN  IF got.raised
        THEN [l |-> [seen EXCEPT !.pc = "done", !.outcome = Raise(got.exc)], h |-> h]
        ELSE IF ~Truthy(block) \/ ~Truthy(data)
        THEN [l |-> [seen EXCEPT !.pc = "done", !.outcome = Finish(h[l.all_dfs])], h |-> h]
        ELSE IF page.raised
        THEN [l |-> [seen EXCEPT !.pc = "done", !.outcome = Raise(KeyError(66))], h |-> h]
        ELSE IF ~HasCol(page.df, "CLOSE")
        THEN [l |-> [seen EXCEPT !.pc = "done", !.outcome = Finish(h[l.all_dfs])], h |-> h]
        ELSE IF LastPage(page.df)
        THEN [l |-> [seen EXCEPT !.pc = "done", !.outcome = Finish(h1[l.all_dfs])], h |-> h1]
        ELSE [l |-> [seen EXCEPT !.pc = "get", !.start_index = NextStart(@)], h |-> h1]

\* get_data, lines 98-100 and 23-25, on a frame.
StartData(l, h) ==
    [l |-> [l EXCEPT !.call = [op |-> "get_data"], !.pc = "wait",
                     !.requests = Append(@, [url |-> << BASE_URL >> \o SnapshotEndpoint(h[l.self]),
                                             params |-> None])],
     h |-> h]

\* get_data, lines 100-132, on a frame.
ReceiveData(l, h, reply, now) ==
    [l |-> [l EXCEPT !.replies = Append(@, reply), !.pc = "done",
                     !.outcome = IF _get(reply).raised THEN Raise(_get(reply).exc)
                                 ELSE Snapshot(_get(reply).data, now)],
     h |-> h]

\* Line 135.
SecuritiesEndpoint(client, market) ==
    << "engines", client.engine, "markets", market, "securities.json" >>

\* get_securities_list, lines 135-136 and 23-25, on a frame.
StartSecurities(l, h, market) ==
    [l |-> [l EXCEPT !.call = [op |-> "get_securities_list", market |-> market],
                     !.pc = "wait",
                     !.requests = Append(@, [url |-> << BASE_URL >>
                                                      \o SecuritiesEndpoint(h[l.self], market),
                                             params |-> None])],
     h |-> h]

\* Lines 137-139: the frame of the "securities" table.
SecuritiesList(j) ==
    Return(DataFrame(DictGet(DictGet(j, "securities", None), "data", << >>),
                     DictGet(DictGet(j, "securities", None), "columns", << >>)))

\* get_securities_list, lines 136-139, on a frame.
ReceiveSecurities(l, h, reply) ==
    [l |-> [l EXCEPT !.replies = Append(@, reply), !.pc = "done",
                     !.outcome = IF _get(reply).raised THEN Raise(_get(reply).exc)
                                 ELSE SecuritiesList(_get(reply).data)],
     h |-> h]

\* What the callers pass and what the upstream answers them with.
ConcurrentIntervals == {"1d", "1h", "5m"}
Markets == {"shares"}

ConcurrentPages(request, tag) ==
    IF request.url[2] = "history"
    THEN { PageBody(HistoryCols, limit, << 0, "asc" >>, tag),
           PageBody(HistoryCols, 2, << 50, "desc" >>, tag) }
    ELSE { PageBody(CandleCols, limit, << 0, "asc" >>, tag),
           PageBody(CandleCols, 2, << 50, "desc" >>, tag) }

ConcurrentReplies(request, tag) ==
    { HttpReply("Timeout", 0, None), HttpReply("ok", 200, [history |-> None]) }
    \cup { HttpReply("ok", 200, b) : b \in ConcurrentPages(request, tag) }

ConcurrentSnapshots ==
    { HttpReply("Timeout", 0, None) }
    \cup { HttpReply("ok", 200, Marketdata([c \in Range(MarketdataCols) |->
                                              IF c = "VOLUME" THEN v ELSE "value"])) :
             v \in {"value", "zero"} }

SecuritiesReplies ==
    { HttpReply("Timeout", 0, None),
      HttpReply("ok", 200, [marketdata |-> None]),
      HttpReply("ok", 200, [securities |-> [columns |-> << "SECID", "PREVPRICE" >>,
                                             data |-> << << "SBER", 250 >>,
                                                         << "GAZP", 160 >> >>]]) }

\* Caller t takes the step that leaves its frame and the heap as s.
Run(t, s) ==
    /\ threads' = [threads EXCEPT ![t] = s.l]
    /\ heap' = s.h
    /\ UNCHANGED seqvars

CallHistory(t) ==
    /\ threads[t].pc = "idle"
    /\ \E start \in StartDates, end \in EndDates, interval \in ConcurrentIntervals :
          Run(t, StartHistory(threads[t], heap, start, end, interval))

IssueHistoryGet(t) ==
    /\ threads[t].pc = "get"
    /\ Len(threads[t].requests) < MaxPages
    /\ Run(t, IssueHistory(threads[t], heap))

\* The pages of the two callers differ: caller 2's are numbered after
\* caller 1's.
AnswerHistory(t) ==
    /\ threads[t].pc = "wait"
    /\ threads[t].call.op = "get_history"
    /\ \E reply \in ConcurrentReplies(threads[t].requests[Len(threads[t].requests)],
                                      Len(threads[t].requests) + MaxPages * (t - 1)) :
          Run(t, ReceiveHistory(threads[t], heap, reply))

CallData(t) ==
    /\ threads[t].pc = "idle"
    /\ Run(t, StartData(threads[t], heap))

AnswerData(t) ==
    /\ threads[t].pc = "wait"
    /\ threads[t].call.op = "get_data"
    /\ \E reply \in ConcurrentSnapshots, now \in Clock :
          Run(t, ReceiveData(threads[t], heap, reply, now))

CallSecurities(t) ==
    /\ threads[t].pc = "idle"
    /\ \E market \in Markets : Run(t, StartSecurities(threads[t], heap, market))

AnswerSecurities(t) ==
    /\ threads[t].pc = "wait"
    /\ threads[t].call.op = "get_securities_list"
    /\ \E reply \in SecuritiesReplies : Run(t, ReceiveSecurities(threads[t], heap, reply))

ConcurrentNext ==
    \E t \in Callers :
        \/ CallHistory(t)
        \/ IssueHistoryGet(t)
        \/ AnswerHistory(t)
        \/ CallData(t)
        \/ AnswerData(t)
        \/ CallSecurities(t)
        \/ AnswerSecurities(t)

ConcurrentInit == Init /\ self = Clients[1]

ConcurrentSpec == ConcurrentInit /\ [][ConcurrentNext]_vars

\* ------------------------------------------------------------------ outcomes

\* The failures of the specification's taxonomy, as the code raises them.
InvalidGranularity == Raise(ValueError(37))
EmptyResult == Raise(ValueError(82))
IsTransportError(o) == o.kind = "raise" /\ o.exc.type = "RuntimeError"
IsInvalidSnapshot(o) ==
    o \in { Raise(ValueError(105)), Raise(ValueError(116)), Raise(ValueError(121)) }

IsHistoryCall == call.op = "get_history"
IsSnapshotCall == call.op = "get_data"

\* The reply is a transport failure.
Failed(reply) == reply \in FailedReplies

\* The envelope the fetcher reads from a reply, its columns and its rows.
ReplyBlock(reply) == Envelope(reply.body)
ReplyCols(reply) == Range(DictGet(ReplyBlock(reply), "columns", << >>))
ReplyData(reply) == DictGet(ReplyBlock(reply), "data", << >>)
RowCount(reply) == Len(ReplyData(reply))

\* The columns of a page that carry the date and the price after aliasing.
DateCol(reply) == IF "end" \in ReplyCols(reply) THEN "end" ELSE "TRADEDATE"
PriceCol(reply) ==
    IF "end" \in ReplyCols(reply) /\ "close" \in ReplyCols(reply) THEN "close" ELSE "CLOSE"
RawCell(reply, r, col) == ReplyData(reply)[r][IndexOf(ReplyBlock(reply).columns, col)]

\* A page is well formed when it has no rows or has a date and a price column.
WellFormed(reply) ==
    RowCount(reply) = 0
    \/ (DateCol(reply) \in ReplyCols(reply) /\ PriceCol(reply) \in ReplyCols(reply))

\* all_dfs holds, page by page and row by row, the date and the price of every
\* row of every reply received.
Accumulated ==
    LET pages == SelectSeq(replies, LAMBDA x : RowCount(x) > 0)
    IN  /\ Len(all_dfs) = Len(pages)
        /\ \A p \in DOMAIN pages :
              /\ Len(all_dfs[p].rows) = RowCount(pages[p])
              /\ \A r \in DOMAIN all_dfs[p].rows :
                    /\ all_dfs[p].rows[r]["TRADEDATE"]
                          = to_datetime(RawCell(pages[p], r, DateCol(pages[p])))
                    /\ all_dfs[p].rows[r]["CLOSE"] = RawCell(pages[p], r, PriceCol(pages[p]))

\* The timestamps of the rows of every reply received.
ReplyTimestamps ==
    UNION { { to_datetime(RawCell(replies[i], r, DateCol(replies[i]))) :
                r \in DOMAIN ReplyData(replies[i]) } : i \in DOMAIN replies }

SeriesTimestamps(df) == { df.rows[i]["TIMESTAMP"] : i \in DOMAIN df.rows }

\* ------------------------------------------------------------------ C1

\* The upstream has answered every request so far, each but the last with
\* exactly 100 rows, the last with at most 100.
FullPagesThenOne ==
    /\ IsHistoryCall
    /\ replies # << >>
    /\ \A i \in DOMAIN replies : ~Failed(replies[i])
    /\ \A i \in 1..(Len(replies) - 1) : RowCount(replies[i]) = 100
    /\ RowCount(replies[Len(replies)]) <= 100

\* A short page is the last request of the call, a full page is followed by
\* another request, and the rows of every page are in all_dfs.
StopsAtShortPage ==
    LET n == Len(replies)
    IN  /\ RowCount(replies[n]) < 100 => (pc = "done" /\ Len(requests) = n)
        /\ RowCount(replies[n]) = 100 => pc \in {"get", "wait"}
        /\ Accumulated

\* C1 as claimed: pages 0..k-1 of exactly 100 rows and a page k of fewer than
\* 100 rows make get_history issue exactly k+1 GETs and accumulate the rows of
\* all k+1 pages, whatever columns the pages have.
C1_AsClaimed == FullPagesThenOne => StopsAtShortPage

\* C1 (amended): when every page that has rows also has a date column and a
\* price column, pages 0..k-1 of exactly 100 rows and a page k of fewer than
\* 100 rows make get_history issue exactly k+1 GETs, none after the short
\* page, the rows of all k+1 pages are accumulated, and a returned series has
\* the timestamps of all of them.
C1_PaginationTermination ==
    (FullPagesThenOne /\ \A i \in DOMAIN replies : WellFormed(replies[i]))
    => /\ StopsAtShortPage
       /\ outcome.kind = "return" => SeriesTimestamps(outcome.value) = ReplyTimestamps

\* Two full pages and a short third one have been fetched and merged.
C1_Witness ==
    /\ FullPagesThenOne
    /\ \A i \in DOMAIN replies : WellFormed(replies[i])
    /\ Len(replies) = 3
    /\ RowCount(replies[3]) \in 1..99
    /\ Len(requests) = 3
    /\ outcome.kind = "return"

\* ------------------------------------------------------------------ C2

\* C2: a transport failure on any page, after any number of fetched pages, is
\* the last thing the call sees: it ends with the RuntimeError of _get, returns
\* no series, and no GET follows the failed one (no further page, no retry).
C2_TransportFailureAborts ==
    IsHistoryCall =>
        \A i \in DOMAIN replies :
            Failed(replies[i]) =>
                /\ i = Len(replies)
                /\ Len(requests) = i
                /\ pc = "done"
                /\ IsTransportError(outcome)

\* The third GET failed after two pages had been accumulated.
C2_Witness ==
    /\ IsHistoryCall
    /\ Len(replies) = 3
    /\ Failed(replies[3])
    /\ Len(all_dfs) = 2
    /\ IsTransportError(outcome)

\* ------------------------------------------------------------------ C3

\* C3: an interval that is none of "1m", "10m", "1h", "1d" ends the call with
\* the ValueError of line 37 before any GET; a recognised one never does, and
\* the call does not end before a GET has been issued.
C3_InvalidGranularityBeforeGet ==
    IsHistoryCall =>
        IF call.interval \in {"1m", "10m", "1h", "1d"}
        THEN /\ outcome # InvalidGranularity
             /\ pc = "done" => Len(requests) >= 1
        ELSE /\ pc = "done"
             /\ outcome = InvalidGranularity
             /\ requests = << >>
             /\ replies = << >>

\* An unrecognised interval has been rejected.
C3_Witness ==
    /\ IsHistoryCall
    /\ call.interval = "5m"
    /\ outcome = InvalidGranularity
    /\ requests = << >>

\* ------------------------------------------------------------------ C4

\* The loop was left by a break: the call is over and neither the interval
\* check, nor the transport, nor a missing date column ended it.
LeftLoop ==
    /\ IsHistoryCall
    /\ pc = "done"
    /\ outcome # InvalidGranularity
    /\ ~Failed(replies[Len(replies)])
    /\ ~(outcome.kind = "raise" /\ outcome.exc.type = "KeyError")

\* C4: when the loop ends with nothing accumulated the call fails with the
\* ValueError of line 82, which is no transport error; a first reply whose
\* envelope has no rows does so after exactly one GET; and a returned series
\* is never empty.
C4_EmptyResult ==
    /\ (LeftLoop /\ all_dfs = << >>) => (outcome = EmptyResult /\ ~IsTransportError(outcome))
    /\ (IsHistoryCall /\ Len(replies) >= 1 /\ ~Failed(replies[1]) /\ RowCount(replies[1]) = 0)
          => (Len(requests) = 1 /\ pc = "done" /\ outcome = EmptyResult)
    /\ (IsHistoryCall /\ outcome.kind = "return") => Len(outcome.value.rows) >= 1

\* The first reply carried an envelope without rows.
C4_Witness ==
    /\ IsHistoryCall
    /\ Len(replies) = 1
    /\ ~Failed(replies[1])
    /\ "data" \in DOMAIN ReplyBlock(replies[1])
    /\ RowCount(replies[1]) = 0
    /\ outcome = EmptyResult

\* ------------------------------------------------------------------ C5

\* C5: the timestamps of a returned series are strictly increasing.
C5_StrictlyIncreasing ==
    (IsHistoryCall /\ outcome.kind = "return") =>
        \A i \in 1..(Len(outcome.value.rows) - 1) :
            outcome.value.rows[i]["TIMESTAMP"] < outcome.value.rows[i + 1]["TIMESTAMP"]

\* A series was returned from pages that overlap and are out of order.
C5_Witness ==
    /\ IsHistoryCall
    /\ outcome.kind = "return"
    /\ Len(all_dfs) >= 2
    /\ Len(ConcatRows(all_dfs)) > Len(outcome.value.rows)
    /\ \E i \in 1..(Len(ConcatRows(all_dfs)) - 1) :
          ConcatRows(all_dfs)[i]["TRADEDATE"] > ConcatRows(all_dfs)[i + 1]["TRADEDATE"]

\* ------------------------------------------------------------------ C6

\* The volume of a row, if it has one.
VolumeOf(row) == IF "VOLUME" \in DOMAIN row THEN {row["VOLUME"]} ELSE {}

PageTimestamps(df) == { df.rows[r]["TRADEDATE"] : r \in DOMAIN df.rows }

\* Timestamp, price and volume of the rows of all_dfs that are the first of
\* their timestamp in page-concatenation order.
FirstOccurrences ==
    UNION { LET df == all_dfs[p]
                earlier == UNION { PageTimestamps(all_dfs[q]) : q \in 1..(p - 1) }
            IN  { << df.rows[r]["TRADEDATE"], df.rows[r]["CLOSE"], VolumeOf(df.rows[r]) >> :
                    r \in { x \in DOMAIN df.rows :
                              /\ df.rows[x]["TRADEDATE"] \notin earlier
                              /\ \A y \in 1..(x - 1) :
                                    df.rows[y]["TRADEDATE"] # df.rows[x]["TRADEDATE"] } }
            : p \in DOMAIN all_dfs }

SeriesRecords(df) ==
    { << df.rows[i]["TIMESTAMP"], df.rows[i]["PRICE"], VolumeOf(df.rows[i]) >> :
        i \in DOMAIN df.rows }

\* C6: a returned series has exactly one record for every timestamp of the
\* accumulated pages, and its price and volume are those of the first row with
\* that timestamp in page-concatenation order.
C6_FirstOccurrenceKept ==
    (IsHistoryCall /\ outcome.kind = "return") =>
        /\ SeriesRecords(outcome.value) = FirstOccurrences
        /\ Cardinality(SeriesTimestamps(outcome.value)) = Len(outcome.value.rows)

\* Two pages shared timestamps, with different prices, and were merged.
C6_Witness ==
    /\ IsHistoryCall
    /\ outcome.kind = "return"
    /\ Len(all_dfs) = 2
    /\ \E r \in DOMAIN all_dfs[1].rows, x \in DOMAIN all_dfs[2].rows :
          /\ all_dfs[1].rows[r]["TRADEDATE"] = all_dfs[2].rows[x]["TRADEDATE"]
          /\ all_dfs[1].rows[r]["CLOSE"] # all_dfs[2].rows[x]["CLOSE"]
          /\ << all_dfs[1].rows[r]["TRADEDATE"], all_dfs[1].rows[r]["CLOSE"],
                VolumeOf(all_dfs[1].rows[r]) >> \in SeriesRecords(outcome.value)

\* ------------------------------------------------------------------ C7

\* The parameters of a request other than start and limit.
BaseKeys(request) == DOMAIN request.params \ {"start", "limit"}

\* The i-th request carries start = 100*i and limit = 100, and the url and
\* the other parameters of the first request.
RequestShape ==
    \A i \in DOMAIN requests :
        /\ requests[i].params["start"] = 100 * (i - 1)
        /\ requests[i].params["limit"] = 100
        /\ requests[i].url = requests[1].url
        /\ BaseKeys(requests[i]) = BaseKeys(requests[1])
        /\ \A k \in BaseKeys(requests[i]) : requests[i].params[k] = requests[1].params[k]

\* C7 as claimed: the request shape, and a next request only after a reply of
\* exactly 100 rows.
C7_AsClaimed ==
    IsHistoryCall =>
        /\ RequestShape
        /\ \A i \in 2..Len(requests) :
              Len(replies) >= i - 1 /\ RowCount(replies[i - 1]) = 100

\* C7 (amended): the i-th GET of a call carries start = 100*i and limit = 100,
\* the url and the from/till/interval parameters are the same in every
\* request, and the request with start = 100*(i+1) is issued only after the
\* reply to request i was received with at least 100 rows.
C7_RequestSequence ==
    IsHistoryCall =>
        /\ RequestShape
        /\ \A i \in 2..Len(requests) :
              Len(replies) >= i - 1 /\ RowCount(replies[i - 1]) >= 100

\* A third request went out after a reply of 101 rows.
C7_Witness ==
    /\ IsHistoryCall
    /\ Len(requests) = 3
    /\ requests[3].params["start"] = 200
    /\ RowCount(replies[2]) = 101

\* ------------------------------------------------------------------ C8

\* C8: a daily request goes to the history endpoint keyed by engine, market,
\* board and ticker with from and till only; an hourly, 10-minute or 1-minute
\* request goes to the candles endpoint keyed by engine, market and ticker
\* (no board) with from, till and interval = 60, 10 or 1.
C8_EndpointResolution ==
    IsHistoryCall =>
        \A i \in DOMAIN requests :
            /\ requests[i].params["from"] = call.start
            /\ requests[i].params["till"] = call.end
            /\ IF call.interval = "1d"
               THEN /\ requests[i].url =
                          << "https://iss.moex.com/iss", "history", "engines", self.engine,
                             "markets", self.market, "boards", self.board,
                             "securities", self.ticker, ".json" >>
                    /\ BaseKeys(requests[i]) = {"from", "till"}
               ELSE /\ requests[i].url =
                          << "https://iss.moex.com/iss", "engines", self.engine,
                             "markets", self.market, "securities", self.ticker,
                             "candles.json" >>
                    /\ BaseKeys(requests[i]) = {"from", "till", "interval"}
                    /\ requests[i].params["interval"] =
                          (CASE call.interval = "1h" -> 60
                             [] call.interval = "10m" -> 10
                             [] call.interval = "1m" -> 1)

\* A second 10-minute request went to the candles endpoint.
C8_Witness ==
    /\ IsHistoryCall
    /\ call.interval = "10m"
    /\ Len(requests) = 2
    /\ requests[2].params["interval"] = 10
    /\ self.board \notin Range(requests[2].url)

\* ------------------------------------------------------------------ C9

\* The replies whose page was appended to all_dfs, in order.
AppendedReplies ==
    SelectSeq(replies, LAMBDA x : ~Failed(x) /\ RowCount(x) > 0 /\ WellFormed(x))

\* The volume column of a page, under either spelling.
HasVolumeField(reply) == ReplyCols(reply) \cap {"VOLUME", "volume"} # {}
VolumeCol(reply) == IF "VOLUME" \in ReplyCols(reply) THEN "VOLUME" ELSE "volume"

\* C9 as claimed: every page appended to all_dfs keeps the volume of its rows
\* when the upstream page has a volume field, history-style or candle-style,
\* and a series returned from pages that all had one has a volume in every
\* record.
C9_VolumeProjected ==
    IsHistoryCall =>
        /\ Len(all_dfs) = Len(AppendedReplies)
        /\ \A p \in DOMAIN all_dfs :
              HasVolumeField(AppendedReplies[p]) =>
                  \A r \in DOMAIN all_dfs[p].rows :
                      VolumeOf(all_dfs[p].rows[r])
                          = {RawCell(AppendedReplies[p], r, VolumeCol(AppendedReplies[p]))}
        /\ (outcome.kind = "return"
              /\ \A p \in DOMAIN AppendedReplies : HasVolumeField(AppendedReplies[p]))
              => \A i \in DOMAIN outcome.value.rows : VolumeOf(outcome.value.rows[i]) # {}

\* ------------------------------------------------------------------ C10

\* The marketdata table of the reply to get_data.
MarketdataOf(reply) == DictGet(reply.body, "marketdata", None)
MarketdataFields(reply) ==
    IF DictGet(MarketdataOf(reply), "data", << >>) = << >> THEN {}
    ELSE Range(DictGet(MarketdataOf(reply), "columns", << >>))
FieldCell(reply, f) ==
    MarketdataOf(reply).data[1][IndexOf(MarketdataOf(reply).columns, f)]

\* The field holds a positive finite number.
HoldsPrice(reply, f) ==
    /\ f \in MarketdataFields(reply)
    /\ FieldCell(reply, f).kind = "num"
    /\ FieldCell(reply, f).v > 0

\* The field is a column of the reply and not null.
Present(reply, f) == f \in MarketdataFields(reply) /\ FieldCell(reply, f).kind # "null"

CandidateFields == << "LCURRENTPRICE", "LAST", "MARKETPRICE", "LASTPRICE", "CLOSEPRICE" >>

\* C10 as claimed: get_data fails with InvalidSnapshot exactly when no
\* candidate field holds a positive finite price or there is no volume field,
\* and returns a snapshot otherwise.
C10_AsClaimed ==
    (IsSnapshotCall /\ pc = "done" /\ ~Failed(replies[1])) =>
        IF \/ \A k \in DOMAIN CandidateFields : ~HoldsPrice(replies[1], CandidateFields[k])
           \/ "VOLUME" \notin MarketdataFields(replies[1])
        THEN IsInvalidSnapshot(outcome)
        ELSE outcome.kind = "return"

\* The first candidate field that is present and not null holds a positive
\* finite number, and VOLUME is present, not null and greater than zero.
SnapshotAccepted(reply) ==
    /\ \E k \in DOMAIN CandidateFields :
          /\ HoldsPrice(reply, CandidateFields[k])
          /\ \A j \in 1..(k - 1) : ~Present(reply, CandidateFields[j])
    /\ Present(reply, "VOLUME")
    /\ FieldCell(reply, "VOLUME").kind = "inf" \/ FieldCell(reply, "VOLUME").v > 0

\* C10 (amended): after a successful GET, get_data fails with InvalidSnapshot
\* when, and only when, marketdata has no row, or the first candidate field
\* that is present and not null does not hold a positive finite price (or
\* there is no such field), or VOLUME is absent, null or not greater than
\* zero; in every other case it returns a snapshot; a failed GET gives a
\* TransportError.
C10_InvalidSnapshot ==
    (IsSnapshotCall /\ pc = "done") =>
        IF Failed(replies[1]) THEN IsTransportError(outcome)
        ELSE IF SnapshotAccepted(replies[1]) THEN outcome.kind = "return"
        ELSE IsInvalidSnapshot(outcome)

\* get_data failed although a later candidate field holds a positive finite
\* price and the volume is positive: the first present candidate was zero.
C10_Witness ==
    /\ IsSnapshotCall
    /\ pc = "done"
    /\ ~Failed(replies[1])
    /\ IsInvalidSnapshot(outcome)
    /\ Present(replies[1], "LCURRENTPRICE")
    /\ HoldsPrice(replies[1], "LAST")
    /\ Present(replies[1], "VOLUME")
    /\ FieldCell(replies[1], "VOLUME").v > 0

\* ------------------------------------------------------------------ C11

\* C11: whenever get_data returns, the returned price is the value of the
\* first field, in the order LCURRENTPRICE, LAST, MARKETPRICE, LASTPRICE,
\* CLOSEPRICE, that is a column of the response and not null; a response that
\* exposes LAST and CLOSEPRICE (and no LCURRENTPRICE) yields the LAST value.
C11_SnapshotFieldPriority ==
    (IsSnapshotCall /\ outcome.kind = "return") =>
        /\ \E k \in DOMAIN CandidateFields :
              /\ Present(replies[1], CandidateFields[k])
              /\ \A j \in 1..(k - 1) : ~Present(replies[1], CandidateFields[j])
              /\ outcome.value.price = FieldCell(replies[1], CandidateFields[k]).v
        /\ (/\ ~Present(replies[1], "LCURRENTPRICE")
            /\ Present(replies[1], "LAST")
            /\ Present(replies[1], "CLOSEPRICE"))
              => outcome.value.price = FieldCell(replies[1], "LAST").v

\* A snapshot was returned from a response holding different prices in LAST
\* and in CLOSEPRICE, LCURRENTPRICE being null.
C11_Witness ==
    /\ IsSnapshotCall
    /\ outcome.kind = "return"
    /\ "LCURRENTPRICE" \in MarketdataFields(replies[1])
    /\ ~Present(replies[1], "LCURRENTPRICE")
    /\ HoldsPrice(replies[1], "LAST")
    /\ HoldsPrice(replies[1], "CLOSEPRICE")
    /\ FieldCell(replies[1], "LAST").v # FieldCell(replies[1], "CLOSEPRICE").v
    /\ outcome.value.price = FieldCell(replies[1], "LAST").v

\* ------------------------------------------------------------------ C12

\* The value of a derived column is the undefined marker.
IsUndefined(x) == x.kind = "nan"

\* C12 as claimed: in a returned series, the log-return and the simple return
\* of a record whose predecessor has price zero are both undefined (NaN).
C12_UndefinedAfterZeroPrice ==
    (IsHistoryCall /\ outcome.kind = "return") =>
        \A i \in 2..Len(outcome.value.rows) :
            outcome.value.rows[i - 1]["PRICE"] = 0 =>
                /\ IsUndefined(outcome.value.rows[i]["LOGRET"])
                /\ IsUndefined(outcome.value.rows[i]["RET"])

\* ------------------------------------------------------------------ C13

\* The value is the fraction a/b.
IsFraction(x, a, b) == x.kind = "num" /\ x.n * b = a * x.d

\* The value is ln(a/b) for a, b > 0.
IsLogOf(x, a, b) ==
    IF a = b THEN x.kind = "num" /\ x.n = 0
    ELSE x.kind = "ln" /\ x.n * b = a * x.d

\* The rows of the returned series whose price is not positive.
NotPositive(rows) == { j \in DOMAIN rows : rows[j]["PRICE"] <= 0 }

\* C13: in every returned series the first record's log-return and simple
\* return are undefined; for i >= 1 with positive prices at i-1 and i,
\* simple-return[i] = price[i]/price[i-1] - 1 and log-return[i] =
\* ln(price[i]/price[i-1]); and while all prices up to i are positive,
\* cumulative-return[i] = cumulative-return[i-1] * (1 + simple-return[i]),
\* starting from 1 + simple-return[1], which is price[i]/price[0]; the first
\* record's cumulative return is undefined.  Rows are in the order of the
\* returned (sorted, deduplicated) series.
C13_ReturnDerivation ==
    (IsHistoryCall /\ outcome.kind = "return") =>
        LET rows == outcome.value.rows
            bad == NotPositive(rows)
        IN  /\ IsUndefined(rows[1]["LOGRET"])
            /\ IsUndefined(rows[1]["RET"])
            /\ IsUndefined(rows[1]["CUMRET"])
            /\ \A i \in 2..Len(rows) :
                  (rows[i]["PRICE"] > 0 /\ rows[i - 1]["PRICE"] > 0) =>
                      /\ IsFraction(rows[i]["RET"],
                                    rows[i]["PRICE"] - rows[i - 1]["PRICE"],
                                    rows[i - 1]["PRICE"])
                      /\ IsLogOf(rows[i]["LOGRET"], rows[i]["PRICE"], rows[i - 1]["PRICE"])
            /\ \A i \in 2..Len(rows) :
                  (\A b \in bad : i < b) =>
                      /\ rows[i]["CUMRET"] =
                            IF i = 2 THEN OnePlus(rows[2]["RET"])
                            ELSE Times(rows[i - 1]["CUMRET"], OnePlus(rows[i]["RET"]))
                      /\ IsFraction(rows[i]["CUMRET"], rows[i]["PRICE"], rows[1]["PRICE"])

\* The series of prices 100, 110, 99 was returned with simple returns
\* 1/10 and -1/10 and cumulative returns 11/10 and 99/100.
C13_Witness ==
    /\ IsHistoryCall
    /\ outcome.kind = "return"
    /\ Len(outcome.value.rows) = 3
    /\ outcome.value.rows[1]["PRICE"] = 100
    /\ outcome.value.rows[2]["PRICE"] = 110
    /\ outcome.value.rows[3]["PRICE"] = 99
    /\ outcome.value.rows[2]["RET"] = [kind |-> "num", n |-> 1, d |-> 10]
    /\ outcome.value.rows[3]["RET"] = [kind |-> "num", n |-> 0 - 1, d |-> 10]
    /\ outcome.value.rows[2]["LOGRET"] = [kind |-> "ln", n |-> 11, d |-> 10]
    /\ outcome.value.rows[3]["LOGRET"] = [kind |-> "ln", n |-> 9, d |-> 10]
    /\ outcome.value.rows[2]["CUMRET"] = [kind |-> "num", n |-> 11, d |-> 10]
    /\ outcome.value.rows[3]["CUMRET"] = [kind |-> "num", n |-> 99, d |-> 100]

\* ------------------------------------------------------------------ C14

\* What a call can observe of its frame: its local values, the contents of
\* the objects it refers to, and its client.
View(l, h) ==
    [pc |-> l.pc, call |-> l.call, endpoint |-> l.endpoint, start_index |-> l.start_index,
     requests |-> l.requests, replies |-> l.replies, outcome |-> l.outcome,
     params |-> IF l.params = 0 THEN << >> ELSE h[l.params],
     all_dfs |-> IF l.all_dfs = 0 THEN << >> ELSE h[l.all_dfs],
     client |-> h[l.self]]

\* get_history run with nobody else around, up to the last of the replies.
RECURSIVE Replay(_, _)
Replay(s, rs) ==
    IF rs = << >> \/ s.l.pc # "get" THEN s
    ELSE LET issued == IssueHistory(s.l, s.h)
         IN  Replay(ReceiveHistory(issued.l, issued.h, Head(rs)), Tail(rs))

\* The call of caller t run alone from the start, given the replies the
\* caller has received so far, up to the GET it is waiting for.
Alone(t) ==
    LET l == threads[t]
        fresh == IdleFrame(t)
        started ==
            CASE l.call.op = "get_history" ->
                     StartHistory(fresh, Clients, l.call.start, l.call.end, l.call.interval)
              [] l.call.op = "get_data" -> StartData(fresh, Clients)
              [] l.call.op = "get_securities_list" ->
                     StartSecurities(fresh, Clients, l.call.market)
        answered ==
            CASE l.call.op = "get_history" -> Replay(started, l.replies)
              [] l.call.op = "get_data" /\ l.replies # << >> ->
                     ReceiveData(started.l, started.h, l.replies[1],
                                 CHOOSE now \in Clock : TRUE)
              [] l.call.op = "get_securities_list" /\ l.replies # << >> ->
                     ReceiveSecurities(started.l, started.h, l.replies[1])
              [] OTHER -> started
    IN  IF answered.l.pc = "get" /\ Len(l.requests) > Len(l.replies)
        THEN IssueHistory(answered.l, answered.h)
        ELSE answered

\* C14: in every interleaving of the steps of two concurrent calls on two
\* clients with different tickers, the clients keep their ticker, engine,
\* market and board, and each call has issued the requests, holds the values
\* and has ended with the outcome it has when it runs alone and receives the
\* same replies.
C14_NoSharedState ==
    \A t \in Callers :
        /\ heap[threads[t].self] = MoexClient(CallerTicker(t))
        /\ threads[t].pc # "idle" =>
              LET alone == Alone(t) IN View(threads[t], heap) = View(alone.l, alone.h)

\* Both callers are in get_history at once: caller 1 has merged two pages
\* while caller 2, which started first and was overtaken, waits for its
\* second page.
C14_Witness ==
    /\ threads[1].call.op = "get_history"
    /\ threads[2].call.op = "get_history"
    /\ threads[2].params < threads[1].params
    /\ threads[1].outcome.kind = "return"
    /\ Len(threads[1].replies) = 2
    /\ threads[2].pc = "wait"
    /\ Len(threads[2].requests) = 2

\* ------------------------------------------------------------------ C15

\* The object under key k of a reply's body (empty when the key is missing or
\* null), its columns, its rows and a cell of a row.
EnvelopeAt(reply, k) == IF k \in DOMAIN reply.body THEN reply.body[k] ELSE << >>
ColsAt(reply, k) ==
    IF "columns" \in DOMAIN EnvelopeAt(reply, k) THEN EnvelopeAt(reply, k).columns ELSE << >>
RowsAt(reply, k) ==
    IF "data" \in DOMAIN EnvelopeAt(reply, k) THEN EnvelopeAt(reply, k).data ELSE << >>
CellAt(reply, k, r, col) == RowsAt(reply, k)[r][IndexOf(ColsAt(reply, k), col)]

\* The date and the price column of the envelope under k after aliasing.
DateColAt(reply, k) == IF "end" \in Range(ColsAt(reply, k)) THEN "end" ELSE "TRADEDATE"
PriceColAt(reply, k) ==
    IF {"end", "close"} \subseteq Range(ColsAt(reply, k)) THEN "close" ELSE "CLOSE"

\* The envelope under k has rows with a date and a price.
Usable(reply, k) ==
    /\ RowsAt(reply, k) # << >>
    /\ {DateColAt(reply, k), PriceColAt(reply, k)} \subseteq Range(ColsAt(reply, k))

\* The page of reply i was appended to all_dfs with the dates and prices of
\* the rows under k.  (A reply is followed by another only if its page was
\* appended, so the page of reply i is all_dfs[i].)
ReadFrom(i, k) ==
    /\ Len(all_dfs) >= i
    /\ Len(all_dfs[i].rows) = Len(RowsAt(replies[i], k))
    /\ \A r \in DOMAIN all_dfs[i].rows :
          /\ all_dfs[i].rows[r]["TRADEDATE"]
                = to_datetime(CellAt(replies[i], k, r, DateColAt(replies[i], k)))
          /\ all_dfs[i].rows[r]["CLOSE"] = CellAt(replies[i], k, r, PriceColAt(replies[i], k))

\* The loop ended at reply i without appending its page and without an error
\* of its own: the call returned the pages before it, or failed with
\* EmptyResult when there were none.
EndedAt(i) ==
    /\ i = Len(replies)
    /\ Len(requests) = i
    /\ pc = "done"
    /\ Len(all_dfs) = i - 1
    /\ IF i = 1 THEN outcome = EmptyResult ELSE outcome.kind = "return"

\* C15 as claimed: the rows are read from the history envelope when it has
\* rows and from the candles envelope otherwise, so a response whose history
\* envelope has no rows and whose candles envelope has rows is read from
\* candles.
C15_AsClaimed ==
    IsHistoryCall =>
        \A i \in DOMAIN replies :
            (/\ ~Failed(replies[i])
             /\ RowsAt(replies[i], "history") = << >>
             /\ Usable(replies[i], "candles"))
                => ReadFrom(i, "candles")

\* The envelope line 54 selects: "history" when that key holds a non-empty
\* object, "candles" otherwise.
Chosen(reply) == IF EnvelopeAt(reply, "history") # << >> THEN "history" ELSE "candles"

\* C15 (amended): for each response the fetcher uses the "history" envelope
\* if it is present and a non-empty object, whether or not it has rows, and
\* otherwise the "candles" envelope; rows with a date and a price in the
\* envelope used are appended from it; the loop ends without error when the
\* envelope used is missing, empty or without rows, whatever the other
\* envelope holds.
C15_EnvelopeSelection ==
    IsHistoryCall =>
        \A i \in DOMAIN replies :
            ~Failed(replies[i]) =>
                /\ Usable(replies[i], Chosen(replies[i])) => ReadFrom(i, Chosen(replies[i]))
                /\ RowsAt(replies[i], Chosen(replies[i])) = << >> => EndedAt(i)

\* A response with a null history envelope beside a candles envelope with
\* rows was read from candles.
C15_Witness ==
    /\ IsHistoryCall
    /\ outcome.kind = "return"
    /\ Len(replies) = 1
    /\ "history" \in DOMAIN replies[1].body
    /\ RowsAt(replies[1], "history") = << >>
    /\ Usable(replies[1], "candles")
    /\ ReadFrom(1, "candles")

\* ------------------------------------------------------------------ C16

\* The page of the reply has rows but, after aliasing, no price field.
NoPriceField(reply) ==
    /\ ~Failed(reply)
    /\ RowsAt(reply, Chosen(reply)) # << >>
    /\ PriceColAt(reply, Chosen(reply)) \notin Range(ColsAt(reply, Chosen(reply)))

\* The timestamps of the pages appended before reply i.
TimestampsBefore(i) == UNION { PageTimestamps(all_dfs[p]) : p \in 1..(i - 1) }

\* C16 as claimed: a page with rows but without a resolvable price field,
\* of 100 rows or fewer, ends the loop without error and without a further
\* GET, is not appended, and the series returned is built from exactly the
\* pages before it; when it is the first page the outcome is EmptyResult.
C16_MalformedTailPage ==
    IsHistoryCall =>
        \A i \in DOMAIN replies :
            NoPriceField(replies[i]) =>
                /\ EndedAt(i)
                /\ \A p \in 1..(i - 1) : ReadFrom(p, Chosen(replies[p]))
                /\ i > 1 => SeriesTimestamps(outcome.value) = TimestampsBefore(i)

\* ------------------------------------------------------------------ C17

\* C17 as claimed: a get_history call that is over has returned a non-empty
\* series or failed with InvalidGranularity, TransportError or EmptyResult.
C17_OutcomeClosure ==
    (IsHistoryCall /\ pc = "done") =>
        \/ outcome.kind = "return" /\ Len(outcome.value.rows) >= 1
        \/ outcome = InvalidGranularity
        \/ IsTransportError(outcome)
        \/ outcome = EmptyResult

\* ------------------------------------------------------------------ C18

\* The reply is one the loop is claimed to stop at: a transport failure, a
\* missing or empty envelope, an empty row array, a page without a price
\* field, or fewer than 100 rows.
StopsLoop(reply) ==
    \/ Failed(reply)
    \/ Len(RowsAt(reply, Chosen(reply))) < 100
    \/ NoPriceField(reply)

\* The reply carries exactly 100 rows with a price field.
FullPriced(reply) ==
    /\ ~Failed(reply)
    /\ Len(RowsAt(reply, Chosen(reply))) = 100
    /\ ~NoPriceField(reply)

\* C18 as claimed (its safety part): the call is over only after a reply that
\* stops the loop, and after every reply of exactly 100 rows with a price
\* field one more GET is issued (or is about to be).
C18_NoOtherExit ==
    (IsHistoryCall /\ replies # << >>) =>
        /\ pc = "done" => StopsLoop(replies[Len(replies)])
        /\ \A i \in DOMAIN replies :
              FullPriced(replies[i]) => (Len(requests) > i \/ pc = "get")

\* get_history runs on: a GET that is due is issued, and a GET in flight is
\* answered or times out (timeout=5).
FairSpec == Spec /\ WF_vars(IssueGet) /\ WF_vars(AnswerPage)

\* The upstream has answered every request the model allows with a page that
\* keeps the loop going.
NeverStopped == pc = "get" /\ Len(requests) = MaxPages

\* The liveness part of C18: a get_history call in progress ends, unless the
\* upstream never sends a reply that stops the loop.
EventuallyEnds ==
    (IsHistoryCall /\ pc \in {"get", "wait"}) ~> (pc = "done" \/ NeverStopped)

====
